---------------------------- MODULE Spec2Model ----------------------------
(***************************************************************************)
(* Model of zip::Iter<Args...> (src/Iter.h) and of its demonstration       *)
(* caller (src/main.cpp).                                                  *)
(*                                                                         *)
(* A container is a sequence of values.  An iterator into container i is   *)
(* modelled by its distance from container i's begin(), so begin() is 0    *)
(* and end() is the container's size.  The iterator pack of an Iter        *)
(* (IterPack::iters_, a std::tuple of iterators) is a tuple of N such      *)
(* positions.  An Iter variable that has not been constructed is the empty *)
(* tuple.                                                                  *)
(*                                                                         *)
(* Three specifications share the state: Spec (construction and position   *)
(* arithmetic on containers of any sizes), SpecData (the operations on the *)
(* values pointed at, on containers holding any values) and SpecSort (the  *)
(* std::sort call of main()).                                              *)
(***************************************************************************)
EXTENDS Integers, Sequences, FiniteSets, TLC

\* The containers zipped by the demonstration: zip::Begin(z, x, y).
Args == <<"z", "x", "y">>

\* sizeof...(Args)
N == Len(Args)

\* std::make_index_sequence<sizeof...(Args)> (shifted to 1-based tuples).
Idx == 1..N

\* Largest container size explored.
MaxLen == 2

\* Largest container size handed to std::sort.
SortLen == 3

\* Element values (compared with <, ==).
Values == {0, 1}

\* The Iter variables of the caller.
Cursors == {"a", "b"}

\* An Iter variable not yet constructed.
NoIter == <<>>

VARIABLES
    data,   \* data[i]: the contents of container i
    it,     \* it[c]: the iterator pack of Iter variable c, or NoIter
    incs,   \* incs[c]: number of ++ applied to c since Begin built it,
            \*          -1 when c was built or moved in any other way
    last,   \* the last operation and what it returned / threw
    sort    \* the state of the std::sort call of main()

vars == <<data, it, incs, last, sort>>

----------------------------------------------------------------------------
(* Containers *)

\* containers.size()...
Sizes == [i \in Idx |-> Len(data[i])]

\* The sequences of length n over S.
SeqsOfLen(S, n) == [1..n -> S]

\* std::vector<T> v(n): n value-initialised elements.
ZeroVector(n) == [p \in 1..n |-> 0]

\* std::iota(y.rbegin(), y.rend(), 0): n-1, n-2, .., 0, kept within Values.
ReverseIota(n) == [p \in 1..n |-> (n - p) % Cardinality(Values)]

----------------------------------------------------------------------------
(* Helper functions of Iter.h *)

\* all_equal with the second overload comparing only its first two arguments
\* and the variadic overload dropping the recursion.
all_equal_first_two(xs) ==
    IF Len(xs) = 1 THEN TRUE
    ELSE xs[1] = xs[2]

\* all_equal(x), all_equal(x, y), all_equal(x, y, args...)
RECURSIVE all_equal(_)
all_equal(xs) ==
    IF Len(xs) = 1 THEN TRUE
    ELSE IF Len(xs) = 2 THEN xs[1] = xs[2]
    ELSE xs[1] = xs[2] /\ all_equal(Tail(xs))

\* Iter::apply_all: func applied to every iterator of the tuple.
apply_all(func, iters) == [i \in Idx |-> func[iters[i]]]

\* apply_all touching only std::get<0>.
apply_first(func, iters) ==
    [i \in Idx |-> IF i = 1 THEN func[iters[i]] ELSE iters[i]]

----------------------------------------------------------------------------
(* Creation functions *)

\* Iter<Args...>(containers.begin()...)
BeginIters == [i \in Idx |-> 0]

\* End returning containers.end() - 1 for every container.
EndItersLastElement == [i \in Idx |-> Len(data[i]) - 1]

\* Iter<Args...>(containers.end()...)
EndIters == [i \in Idx |-> Len(data[i])]

\* Begin: if (!all_equal(containers.size()...)) throw LengthEqualityException()
BeginThrows == ~all_equal(Sizes)

\* End validating the sizes like Begin.
EndThrowsChecked == ~all_equal(Sizes)

\* End performs no check.
EndThrows == FALSE

----------------------------------------------------------------------------
(* Iter: arithmetic *)

\* operator++ incrementing only the first iterator.
IncrFirstOnly(iters) == apply_first([x \in Int |-> x + 1], iters)

\* operator++ : ++x on every iterator.
Incr(iters) == apply_all([x \in Int |-> x + 1], iters)

\* operator-- : --x on every iterator.
Decr(iters) == apply_all([x \in Int |-> x - 1], iters)

\* operator+= advancing only the first iterator.
AdvanceFirstOnly(iters, shift) == apply_first([x \in Int |-> x + shift], iters)

\* operator+= : std::advance(x, shift) on every iterator.
Advance(iters, shift) == apply_all([x \in Int |-> x + shift], iters)

\* operator- with the operands exchanged.
DifferenceReversed(lhs, rhs) == rhs[1] - lhs[1]

\* operator- : std::get<0>(pack.iters_) - std::get<0>(rhs.pack.iters_)
Difference(lhs, rhs) == lhs[1] - rhs[1]

\* Every iterator of the pack points at an element.
Dereferenceable(iters) == \A i \in Idx : 0 <= iters[i] /\ iters[i] < Len(data[i])

----------------------------------------------------------------------------
(* std::tuple comparisons, as used on Iterators and on dereferenced tuples *)

\* std::tuple operator== : every pair of components is equal.
TupleEq(l, r) == \A i \in Idx : l[i] = r[i]

\* std::tuple operator< : lexicographic, leftmost component first.
RECURSIVE TupleLessFrom(_, _, _)
TupleLessFrom(l, r, i) ==
    IF i > N THEN FALSE
    ELSE IF l[i] < r[i] THEN TRUE
    ELSE IF r[i] < l[i] THEN FALSE
    ELSE TupleLessFrom(l, r, i + 1)

TupleLess(l, r) == TupleLessFrom(l, r, 1)

\* Iter::operator== .. operator< : comparisons of pack.iters_.
IterEq(lhs, rhs) == TupleEq(lhs, rhs)
IterNe(lhs, rhs) == ~TupleEq(lhs, rhs)
IterLe(lhs, rhs) == ~TupleLess(rhs, lhs)
IterGe(lhs, rhs) == ~TupleLess(lhs, rhs)
IterGt(lhs, rhs) == TupleLess(rhs, lhs)

IterLt(lhs, rhs) == TupleLess(lhs, rhs)

----------------------------------------------------------------------------
(* IterPack: the values pointed at *)

\* IterPack::deref() const: std::forward_as_tuple(*std::get<Seq>(iters_)...)
deref(iters) == [i \in Idx |-> data[i][iters[i] + 1]]

\* operator< comparing the iterators instead of the values pointed at.
PackLessByPosition(lhs, rhs) == TupleLess(lhs, rhs)

\* IterPack::operator< : deref() < rhs.deref()
PackLess(lhs, rhs) == TupleLess(deref(lhs), deref(rhs))

\* IterPack::operator== : deref() == rhs.deref()
PackEq(lhs, rhs) == TupleEq(deref(lhs), deref(rhs))

\* std::iter_swap(p, q) on one container: the elements at p and q exchanged.
iter_swap(seq, p, q) ==
    [k \in 1..Len(seq) |->
        IF k = p + 1 THEN seq[q + 1]
        ELSE IF k = q + 1 THEN seq[p + 1]
        ELSE seq[k]]

\* A swap that exchanges the elements of the first container only.
swap_first_only(lhs, rhs) ==
    [i \in Idx |-> IF i = 1 THEN iter_swap(data[i], lhs[i], rhs[i]) ELSE data[i]]

\* swap(IterPack&, IterPack&): apply_binary of std::iter_swap over the two
\* iterator tuples; the containers afterwards.
swap(lhs, rhs) == [i \in Idx |-> iter_swap(data[i], lhs[i], rhs[i])]

\* IterPack has no user-declared assignment: the implicit one copies iters_.
\* The pack of the assigned-to Iter afterwards.
PackAssign(lhs, rhs) == rhs

----------------------------------------------------------------------------
(* The operations of the caller *)

Ret(op, thrown, b, n) == [op |-> op, thrown |-> thrown, b |-> b, n |-> n]

NoOp == Ret("none", FALSE, FALSE, 0)

Idle == [pc |-> "idle"]

Live(c) == it[c] # NoIter

\* The shifts tried with + and +=.
Shifts == (0 - MaxLen)..MaxLen

\* auto c = zip::Begin(containers...)
DoBegin(c) ==
    /\ sort.pc = "idle"
    /\ IF BeginThrows
       THEN /\ last' = Ret("Begin", TRUE, FALSE, 0)
            /\ UNCHANGED <<it, incs>>
       ELSE /\ last' = Ret("Begin", FALSE, FALSE, 0)
            /\ it' = [it EXCEPT ![c] = BeginIters]
            /\ incs' = [incs EXCEPT ![c] = 0]
    /\ UNCHANGED <<data, sort>>

\* auto c = zip::End(containers...)
DoEnd(c) ==
    /\ sort.pc = "idle"
    /\ IF EndThrows
       THEN /\ last' = Ret("End", TRUE, FALSE, 0)
            /\ UNCHANGED <<it, incs>>
       ELSE /\ last' = Ret("End", FALSE, FALSE, 0)
            /\ it' = [it EXCEPT ![c] = EndIters]
            /\ incs' = [incs EXCEPT ![c] = -1]
    /\ UNCHANGED <<data, sort>>

\* ++c, for c not at the end of any container
PreIncrement(c) ==
    /\ sort.pc = "idle"
    /\ Live(c)
    /\ \A i \in Idx : it[c][i] < Len(data[i])
    /\ it' = [it EXCEPT ![c] = Incr(it[c])]
    /\ incs' = [incs EXCEPT ![c] = IF incs[c] >= 0 THEN incs[c] + 1 ELSE -1]
    /\ last' = Ret("++", FALSE, FALSE, 0)
    /\ UNCHANGED <<data, sort>>

\* --c, for c not at the begin of any container
PreDecrement(c) ==
    /\ sort.pc = "idle"
    /\ Live(c)
    /\ \A i \in Idx : it[c][i] > 0
    /\ it' = [it EXCEPT ![c] = Decr(it[c])]
    /\ incs' = [incs EXCEPT ![c] = -1]
    /\ last' = Ret("--", FALSE, FALSE, 0)
    /\ UNCHANGED <<data, sort>>

\* c += shift, staying inside every container
PlusAssign(c, shift) ==
    /\ sort.pc = "idle"
    /\ Live(c)
    /\ \A i \in Idx : 0 <= it[c][i] + shift /\ it[c][i] + shift <= Len(data[i])
    /\ it' = [it EXCEPT ![c] = Advance(it[c], shift)]
    /\ incs' = [incs EXCEPT ![c] = -1]
    /\ last' = Ret("+=", FALSE, FALSE, 0)
    /\ UNCHANGED <<data, sort>>

\* d = c + shift: a copy of c, advanced with +=
Plus(c, d, shift) ==
    /\ sort.pc = "idle"
    /\ Live(c)
    /\ \A i \in Idx : 0 <= it[c][i] + shift /\ it[c][i] + shift <= Len(data[i])
    /\ it' = [it EXCEPT ![d] = Advance(it[c], shift)]
    /\ incs' = [incs EXCEPT ![d] = -1]
    /\ last' = Ret("+", FALSE, FALSE, 0)
    /\ UNCHANGED <<data, sort>>

\* A query: nothing changes but the value returned.
Query(c, d, ret) ==
    /\ sort.pc = "idle"
    /\ Live(c)
    /\ Live(d)
    /\ last' = ret
    /\ UNCHANGED <<data, it, incs, sort>>

\* c - d
Minus(c, d) == Query(c, d, Ret("-", FALSE, FALSE, Difference(it[c], it[d])))

\* c == d, c != d, c <= d, c >= d, c > d, c < d
Eq(c, d) == Query(c, d, Ret("==", FALSE, IterEq(it[c], it[d]), 0))
Ne(c, d) == Query(c, d, Ret("!=", FALSE, IterNe(it[c], it[d]), 0))
Le(c, d) == Query(c, d, Ret("<=", FALSE, IterLe(it[c], it[d]), 0))
Ge(c, d) == Query(c, d, Ret(">=", FALSE, IterGe(it[c], it[d]), 0))
Gt(c, d) == Query(c, d, Ret(">", FALSE, IterGt(it[c], it[d]), 0))
Lt(c, d) == Query(c, d, Ret("<", FALSE, IterLt(it[c], it[d]), 0))

\* *c < *d, for c and d pointing at elements
ValueLess(c, d) ==
    /\ Live(c)
    /\ Live(d)
    /\ Dereferenceable(it[c])
    /\ Dereferenceable(it[d])
    /\ Query(c, d, Ret("*<", FALSE, PackLess(it[c], it[d]), 0))

\* *c == *d, for c and d pointing at elements
ValueEq(c, d) ==
    /\ Live(c)
    /\ Live(d)
    /\ Dereferenceable(it[c])
    /\ Dereferenceable(it[d])
    /\ Query(c, d, Ret("*==", FALSE, PackEq(it[c], it[d]), 0))

\* swap(*c, *d), for c and d pointing at elements
Swap(c, d) ==
    /\ sort.pc = "idle"
    /\ Live(c)
    /\ Live(d)
    /\ Dereferenceable(it[c])
    /\ Dereferenceable(it[d])
    /\ data' = swap(it[c], it[d])
    /\ last' = Ret("swap", FALSE, FALSE, 0)
    /\ UNCHANGED <<it, incs, sort>>

\* *c = *d: Iter::operator* returns the Iter's own IterPack by reference, and
\* the assignment is IterPack's implicit copy assignment.
AssignView(c, d) ==
    /\ sort.pc = "idle"
    /\ Live(c)
    /\ Live(d)
    /\ Dereferenceable(it[c])
    /\ Dereferenceable(it[d])
    /\ it' = [it EXCEPT ![c] = PackAssign(it[c], it[d])]
    /\ incs' = [incs EXCEPT ![c] = -1]
    /\ last' = Ret("*=", FALSE, FALSE, 0)
    /\ UNCHANGED <<data, sort>>

----------------------------------------------------------------------------
(* Spec: containers of any sizes, freshly constructed (value-initialised)  *)
(* or filled with std::iota as y in main(), and every operation of Iter.   *)

Init ==
    /\ \E n \in [Idx -> 0..MaxLen] :
          \/ data = [i \in Idx |-> ZeroVector(n[i])]
          \/ data = [i \in Idx |-> ReverseIota(n[i])]
    /\ it = [c \in Cursors |-> NoIter]
    /\ incs = [c \in Cursors |-> -1]
    /\ last = NoOp
    /\ sort = Idle

Next ==
    \/ \E c \in Cursors : DoBegin(c)
    \/ \E c \in Cursors : DoEnd(c)
    \/ \E c \in Cursors : PreIncrement(c)
    \/ \E c \in Cursors : PreDecrement(c)
    \/ \E c \in Cursors, k \in Shifts : PlusAssign(c, k)
    \/ \E c, d \in Cursors, k \in Shifts : Plus(c, d, k)
    \/ \E c, d \in Cursors : Minus(c, d)
    \/ \E c, d \in Cursors : Eq(c, d)
    \/ \E c, d \in Cursors : Ne(c, d)
    \/ \E c, d \in Cursors : Le(c, d)
    \/ \E c, d \in Cursors : Ge(c, d)
    \/ \E c, d \in Cursors : Gt(c, d)
    \/ \E c, d \in Cursors : Lt(c, d)
    \/ \E c, d \in Cursors : ValueLess(c, d)
    \/ \E c, d \in Cursors : ValueEq(c, d)
    \/ \E c, d \in Cursors : Swap(c, d)
    \/ \E c, d \in Cursors : AssignView(c, d)

Spec == Init /\ [][Next]_vars

----------------------------------------------------------------------------
(* Properties of construction and of position arithmetic (under Spec) *)

\* The containers' sizes are all identical.
SameSizes == \A i, j \in Idx : Len(data[i]) = Len(data[j])

\* All the iterators of a pack are at the same distance from their begin().
Synced(iters) == \A i, j \in Idx : iters[i] = iters[j]

\* The logical offset of a pack: the distance of its last iterator.
Off(iters) == iters[N]

\* Exactly Iter variable c was (re)built, as the pack p.
Built(c, p) == it' = [it EXCEPT ![c] = p]

\* C1: Begin on containers whose sizes are not all identical throws
\* LengthEqualityException and produces no cursor (no Iter variable changes),
\* wherever in the argument list the differing size is.
C1_BeginRejectsMismatch ==
    [][(last'.op = "Begin" /\ ~SameSizes) => (last'.thrown /\ it' = it)]_vars

\* Begin has thrown on containers that differ only in the last size.
C1_Witness ==
    /\ last.op = "Begin"
    /\ last.thrown
    /\ \A i \in 1..(N - 1) : Len(data[i]) = Len(data[1])
    /\ Len(data[N]) # Len(data[1])
    /\ it = [c \in Cursors |-> NoIter]

\* C2: on containers of one common size L (L = 0 included) Begin and End
\* both succeed; Begin's cursor has every component at offset 0 and End's
\* has every component at offset L.
C2_BeginEndOnEqualSizes ==
    [][SameSizes =>
        /\ last'.op = "Begin" =>
              /\ ~last'.thrown
              /\ \E c \in Cursors : Built(c, [i \in Idx |-> 0])
        /\ last'.op = "End" =>
              /\ ~last'.thrown
              /\ \E c \in Cursors : Built(c, [i \in Idx |-> Len(data[1])])
      ]_vars

\* Begin and End have both succeeded on non-empty containers of one size.
C2_Witness ==
    /\ SameSizes
    /\ Len(data[1]) >= 1
    /\ last.op = "End"
    /\ ~last.thrown
    /\ it["a"] = [i \in Idx |-> 0]
    /\ it["b"] = [i \in Idx |-> Len(data[1])]

\* No operation moves one component of a cursor without moving all the
\* others by the same amount: ++ moves every component of one cursor by 1,
\* -- by -1, += by one common k, and + builds a cursor every component of
\* which is k away from the same component of its operand.
MovesTogether ==
    /\ last'.op = "++" =>
          \E c \in Cursors : Live(c) /\ Built(c, [i \in Idx |-> it[c][i] + 1])
    /\ last'.op = "--" =>
          \E c \in Cursors : Live(c) /\ Built(c, [i \in Idx |-> it[c][i] - 1])
    /\ last'.op = "+=" =>
          \E c \in Cursors, k \in Shifts :
              Live(c) /\ Built(c, [i \in Idx |-> it[c][i] + k])
    /\ last'.op = "+" =>
          \E c, d \in Cursors, k \in Shifts :
              Live(c) /\ Built(d, [i \in Idx |-> it[c][i] + k])

\* C3 as stated: every cursor obtained from Begin or End has, at
\* construction and after any ++, --, += and +, all its components at the
\* same offset, and no operation moves one component without the others.
C3_EveryCursorSynchronized ==
    /\ [](\A c \in Cursors : Live(c) => Synced(it[c]))
    /\ [][MovesTogether]_vars

\* C3 amended: the same for every cursor obtained from Begin, and for a
\* cursor obtained from End when the containers' sizes are all identical;
\* no operation on any cursor moves one component without the others.
C3_CursorSynchronizedOnEqualSizes ==
    /\ [](SameSizes => \A c \in Cursors : Live(c) => Synced(it[c]))
    /\ [][MovesTogether]_vars

\* A cursor has been moved by += to the middle of non-empty containers of
\* one size, the other one sits at their end.
C3_Witness ==
    /\ SameSizes
    /\ Len(data[1]) >= 2
    /\ last.op = "+="
    /\ Live("a")
    /\ it["a"] = [i \in Idx |-> 1]
    /\ it["b"] = [i \in Idx |-> Len(data[1])]

\* C7: on containers of one common size L, a cursor built by Begin and then
\* advanced exactly L times by ++ compares == (and not !=) to the cursor an
\* independent End returns.
C7_WalkReachesEnd ==
    \A c \in Cursors :
        (SameSizes /\ Live(c) /\ incs[c] = Len(data[1])) =>
            /\ IterEq(it[c], EndIters)
            /\ ~IterNe(it[c], EndIters)
            /\ it[c] = [i \in Idx |-> Len(data[i])]

\* a has been built by Begin and incremented L >= 2 times, b has been built
\* by End, and == has just answered true.
C7_Witness ==
    /\ SameSizes
    /\ Len(data[1]) >= 2
    /\ incs["a"] = Len(data[1])
    /\ it["b"] = EndIters
    /\ last.op = "=="
    /\ last.b

\* C9: for two cursors over the same containers of one common size, at
\* offsets i and j, c - d is i - j and c < d, c <= d, c > d, c >= d, c == d,
\* c != d hold exactly when i < j, i <= j, i > j, i >= j, i = j, i # j,
\* whatever the containers hold.
C9_PositionOrderIsOffsetOrder ==
    [][(SameSizes /\ last'.op \in {"-", "<", "<=", ">", ">=", "==", "!="}) =>
        \A c, d \in Cursors :
            /\ Minus(c, d) => last'.n = Off(it[c]) - Off(it[d])
            /\ Lt(c, d) => last'.b = (Off(it[c]) < Off(it[d]))
            /\ Le(c, d) => last'.b = (Off(it[c]) <= Off(it[d]))
            /\ Gt(c, d) => last'.b = (Off(it[c]) > Off(it[d]))
            /\ Ge(c, d) => last'.b = (Off(it[c]) >= Off(it[d]))
            /\ Eq(c, d) => last'.b = (Off(it[c]) = Off(it[d]))
            /\ Ne(c, d) => last'.b = (Off(it[c]) # Off(it[d]))
      ]_vars

\* A difference of two has just been computed between a cursor at the end
\* and one at the begin of containers holding non-zero values.
C9_Witness ==
    /\ SameSizes
    /\ Len(data[1]) = 2
    /\ data[1][1] # 0
    /\ last.op = "-"
    /\ last.n = 2
    /\ it["a"] = [i \in Idx |-> 0]
    /\ it["b"] = [i \in Idx |-> 2]

\* C10: LengthEqualityException is thrown by Begin only.  End validates
\* nothing: on containers of any sizes it succeeds and returns a cursor whose
\* i-th component is at container i's own size; no other operation throws.
C10_OnlyBeginThrows ==
    /\ [](last.thrown => last.op = "Begin")
    /\ [][last'.op = "End" =>
            /\ ~last'.thrown
            /\ \E c \in Cursors : Built(c, [i \in Idx |-> Len(data[i])])
         ]_vars

\* End has just succeeded on containers of three different sizes.
C10_Witness ==
    /\ last.op = "End"
    /\ ~last.thrown
    /\ \A i, j \in Idx : i # j => Len(data[i]) # Len(data[j])
    /\ it["a"] = [i \in Idx |-> Len(data[i])]

----------------------------------------------------------------------------
(* SpecData: containers of one common size holding any values, cursors     *)
(* placed anywhere, and the operations on the values pointed at.           *)

InitData ==
    /\ \E n \in 0..MaxLen : data \in [Idx -> SeqsOfLen(Values, n)]
    /\ it = [c \in Cursors |-> NoIter]
    /\ incs = [c \in Cursors |-> -1]
    /\ last = NoOp
    /\ sort = Idle

NextData ==
    \/ \E c \in Cursors : DoBegin(c)
    \/ \E c \in Cursors : DoEnd(c)
    \/ \E c \in Cursors, k \in Shifts : PlusAssign(c, k)
    \/ \E c, d \in Cursors : ValueLess(c, d)
    \/ \E c, d \in Cursors : ValueEq(c, d)
    \/ \E c, d \in Cursors : Swap(c, d)
    \/ \E c, d \in Cursors : AssignView(c, d)

SpecData == InitData /\ [][NextData]_vars

\* The element of container i at the offset of a pack.
At(i, iters) == data[i][Off(iters) + 1]

\* v is before w in the lexicographic order, the first component deciding
\* and each later one breaking the ties of those before it.
LexLess(v, w) ==
    \E i \in Idx : v[i] < w[i] /\ \A j \in 1..(i - 1) : v[j] = w[j]

C6_ViewAliasesElements ==
    /\ [](\A c \in Cursors :
            (Live(c) /\ Dereferenceable(it[c])) =>
                \A i \in Idx : deref(it[c])[i] = At(i, it[c]))
    /\ [][last'.op \in {"*<", "*=="} => (data' = data /\ it' = it)]_vars
    /\ [][\A c, d \in Cursors :
            (last'.op = "*=" /\ AssignView(c, d)) =>
                /\ it' = it
                /\ data' = [i \in Idx |->
                              [data[i] EXCEPT ![Off(it[c]) + 1] = At(i, it[d])]]
         ]_vars

\* C8: < and == of two views depend on the values pointed at only: < is the
\* lexicographic order of the two value tuples, container 1's value first,
\* and == holds exactly when all N pairs of values are equal, wherever the
\* two cursors are.
C8_ValueComparisons ==
    [][\A c, d \in Cursors :
          /\ (last'.op = "*<" /\ ValueLess(c, d)) =>
                last'.b = LexLess([i \in Idx |-> At(i, it[c])],
                                  [i \in Idx |-> At(i, it[d])])
          /\ (last'.op = "*==" /\ ValueEq(c, d)) =>
                last'.b = (\A i \in Idx : At(i, it[c]) = At(i, it[d]))
      ]_vars

\* *a < *b has just answered true with a after b, the first containers'
\* values tied and a later container deciding.
C8_Witness ==
    /\ last.op = "*<"
    /\ last.b
    /\ Len(data[1]) >= 2
    /\ it["a"] = [i \in Idx |-> 1]
    /\ it["b"] = [i \in Idx |-> 0]
    /\ data[1][1] = data[1][2]
    /\ data[N][2] < data[N][1]

----------------------------------------------------------------------------
\* SpecSort: std::sort(zip::Begin(z, x, y), zip::End(z, x, y)) of main().
\*
\* std::sort is instantiated with Iter's traits: value_type is IterPack,
\* reference is IterPack& and operator* returns the Iter's own pack.  On a
\* range of at most 16 elements (main() sorts 10) the sort is an insertion
\* sort that keeps the element being inserted in a value_type and shifts
\* the others by move assignment through operator* :
\*
\*   for (i = first + 1; i != last; ++i)
\*     if ( *i < *first ) {
\*       value_type val = std::move( *i );
\*       std::move_backward(first, i, i + 1);
\*       *first = std::move(val);
\*     } else {
\*       value_type val = std::move( *i );  cur = i;  next = i;  --next;
\*       while ( val < *next ) { *cur = std::move( *next ); cur = next; --next; }
\*       *cur = std::move(val);
\*     }
\*
\* Constructing a value_type from *p copies p's pack, and assigning to *p
\* assigns to p's pack (PackAssign); std::move_backward works on copies of
\* its three arguments.  No step writes to a container.

SortState(pc, first, lst, i, val, cur, next) ==
    [pc |-> pc, first |-> first, last |-> lst, i |-> i,
     val |-> val, cur |-> cur, next |-> next, orig |-> data]

\* std::sort(zip::Begin(z, x, y), zip::End(z, x, y)): the arguments are
\* built, and an empty range (first == last) returns at once.
SortCall ==
    /\ sort.pc = "call"
    /\ sort' =
          IF BeginThrows
          THEN SortState("thrown", NoIter, NoIter, NoIter, NoIter, NoIter, NoIter)
          ELSE IF IterEq(BeginIters, EndIters)
          THEN SortState("done", BeginIters, EndIters, NoIter, NoIter, NoIter, NoIter)
          ELSE SortState("loop", BeginIters, EndIters, Advance(BeginIters, 1),
                         NoIter, NoIter, NoIter)
    /\ last' = Ret("Begin", BeginThrows, FALSE, 0)
    /\ UNCHANGED <<data, it, incs>>

\* i == last: the sort returns.
SortReturn ==
    /\ sort.pc = "loop"
    /\ ~IterNe(sort.i, sort.last)
    /\ sort' = [sort EXCEPT !.pc = "done"]
    /\ UNCHANGED <<data, it, incs, last>>

\* *i < *first: val = *i; move_backward(first, i, i + 1); *first = val; ++i.
\* The assignment makes first a copy of val's pack.
SortToFront ==
    /\ sort.pc = "loop"
    /\ IterNe(sort.i, sort.last)
    /\ PackLess(sort.i, sort.first)
    /\ LET val == PackAssign(NoIter, sort.i)
       IN  sort' = [sort EXCEPT !.first = PackAssign(sort.first, val),
                                !.i = Incr(sort.i)]
    /\ UNCHANGED <<data, it, incs, last>>

\* not *i < *first : val = *i; cur = i; next = i; --next.
SortInsertBegin ==
    /\ sort.pc = "loop"
    /\ IterNe(sort.i, sort.last)
    /\ ~PackLess(sort.i, sort.first)
    /\ sort' = [sort EXCEPT !.pc = "insert",
                            !.val = PackAssign(NoIter, sort.i),
                            !.cur = sort.i,
                            !.next = Decr(sort.i)]
    /\ UNCHANGED <<data, it, incs, last>>

\* val < *next: *cur = *next; cur = next; --next.  The first assignment
\* makes cur a copy of next's pack, which the second does again.
SortInsertShift ==
    /\ sort.pc = "insert"
    /\ Dereferenceable(sort.next)
    /\ PackLess(sort.val, sort.next)
    /\ sort' = [sort EXCEPT !.cur = sort.next, !.next = Decr(sort.next)]
    /\ UNCHANGED <<data, it, incs, last>>

\* not val < *next : *cur = val; ++i.
SortInsertEnd ==
    /\ sort.pc = "insert"
    /\ Dereferenceable(sort.next)
    /\ ~PackLess(sort.val, sort.next)
    /\ sort' = [sort EXCEPT !.pc = "loop",
                            !.cur = PackAssign(sort.cur, sort.val),
                            !.i = Incr(sort.i)]
    /\ UNCHANGED <<data, it, incs, last>>

\* The containers of main(): one common size, any values.
InitSort ==
    /\ \E n \in 0..SortLen : data \in [Idx -> SeqsOfLen(Values, n)]
    /\ it = [c \in Cursors |-> NoIter]
    /\ incs = [c \in Cursors |-> -1]
    /\ last = NoOp
    /\ sort = SortState("call", NoIter, NoIter, NoIter, NoIter, NoIter, NoIter)

NextSort ==
    \/ SortCall
    \/ SortReturn
    \/ SortToFront
    \/ SortInsertBegin
    \/ SortInsertShift
    \/ SortInsertEnd

SpecSort == InitSort /\ [][NextSort]_vars

\* The tuple (seq_1[p], ..., seq_N[p]).
Row(p) == [i \in Idx |-> data[i][p]]

\* The tuple (seq_1[p], ..., seq_N[p]) before the sort.
OrigRow(p) == [i \in Idx |-> sort.orig[i][p]]

\* The number of rows equal to r, now and before the sort.
Count(r) == Cardinality({p \in 1..Len(data[1]) : Row(p) = r})
OrigCount(r) == Cardinality({p \in 1..Len(sort.orig[1]) : OrigRow(p) = r})

\* C4 as stated: when std::sort has returned, the tuples of the zipped
\* containers are in non-decreasing lexicographic order and are a
\* permutation of the tuples before the sort.
C4_SortLeavesRowsSorted ==
    sort.pc = "done" =>
        /\ \A p \in 1..(Len(data[1]) - 1) : ~LexLess(Row(p + 1), Row(p))
        /\ \A i \in Idx : Len(data[i]) = Len(sort.orig[i])
        /\ \A p \in 1..Len(data[1]) :
              Count(Row(p)) = OrigCount(Row(p))

============================================================================
